---------------------------- MODULE Spec2Model ----------------------------
(***************************************************************************)
(* Scripts/download_data.py: download daily bars of one equity symbol,     *)
(* re-encode each bar as a fixed-point text record, write the records to a *)
(* staging csv, zip it and remove the staging file.                        *)
(*                                                                         *)
(* Text is modelled as sequences of one-character strings, binary64        *)
(* numbers as a significand (a little-endian bit sequence) and a binary    *)
(* exponent, so that formatting, case mapping and the floating-point       *)
(* product are computed and not assumed.                                   *)
(***************************************************************************)
EXTENDS Integers, Sequences, FiniteSets, TLC

(***************************************************************************)
(* Arbitrary-precision naturals: little-endian sequences of limbs in       *)
(* 0..Base-1 with no leading (high-order) zero limb; <<>> is zero.         *)
(***************************************************************************)
LimbBits == 15

Base == 2 ^ LimbBits

RECURSIVE NatOf(_)
NatOf(n) == IF n = 0 THEN <<>> ELSE <<n % Base>> \o NatOf(n \div Base)

RECURSIVE Trim(_)
Trim(b) ==
  IF b = <<>> THEN <<>>
  ELSE IF b[Len(b)] = 0 THEN Trim(SubSeq(b, 1, Len(b) - 1)) ELSE b

RECURSIVE ToInt(_)
ToInt(b) == IF b = <<>> THEN 0 ELSE b[1] + Base * ToInt(Tail(b))

\* The number of bits of a limb n > 0.
Width(n) == CHOOSE w \in 1..LimbBits : 2 ^ (w - 1) <= n /\ n < 2 ^ w

BitLen(b) == IF b = <<>> THEN 0 ELSE LimbBits * (Len(b) - 1) + Width(b[Len(b)])

\* Bit i of b, bit 0 the least significant.
Bit(b, i) ==
  IF (i \div LimbBits) + 1 > Len(b) THEN 0
  ELSE (b[(i \div LimbBits) + 1] \div (2 ^ (i % LimbBits))) % 2

\* b * 2^t
ShiftLeft(b, t) ==
  LET q == t \div LimbBits
      r == t % LimbBits
  IN  Trim([i \in 1..(Len(b) + q + 1) |->
             IF i <= q THEN 0
             ELSE (IF i - q <= Len(b) THEN (b[i - q] % (2 ^ (LimbBits - r))) * (2 ^ r) ELSE 0)
                  + (IF i - q >= 2 THEN b[i - q - 1] \div (2 ^ (LimbBits - r)) ELSE 0)])

\* b \div 2^t
ShiftRight(b, t) ==
  LET q == t \div LimbBits
      r == t % LimbBits
  IN  IF q >= Len(b) THEN <<>>
      ELSE Trim([i \in 1..(Len(b) - q) |->
                  (b[i + q] \div (2 ^ r))
                  + (IF i + q + 1 <= Len(b)
                     THEN (b[i + q + 1] % (2 ^ r)) * (2 ^ (LimbBits - r)) ELSE 0)])

\* b % 2^t # 0
LowBitsNonZero(b, t) == \E i \in 0..(t - 1) : Bit(b, i) = 1

RECURSIVE MulCarry(_, _, _)
MulCarry(b, c, carry) ==
  IF b = <<>> THEN NatOf(carry)
  ELSE LET s == b[1] * c + carry
       IN  <<s % Base>> \o MulCarry(Tail(b), c, s \div Base)

\* b * c for a small positive integer c.
BigMulSmall(b, c) == Trim(MulCarry(b, c, 0))

RECURSIVE DivStep(_, _, _, _, _)
DivStep(b, i, c, q, r) ==
  IF i = 0 THEN [q |-> Trim(q), r |-> r]
  ELSE LET n == Base * r + b[i]
       IN  DivStep(b, i - 1, c, <<n \div c>> \o q, n % c)

\* Quotient and remainder of b by a small positive integer c.
BigDivSmall(b, c) == DivStep(b, Len(b), c, <<>>, 0)

RECURSIVE Inc(_)
Inc(b) ==
  IF b = <<>> THEN <<1>>
  ELSE IF b[1] < Base - 1 THEN <<b[1] + 1>> \o Tail(b) ELSE <<0>> \o Inc(Tail(b))

RECURSIVE Dec(_)
Dec(b) ==
  IF b = <<>> THEN <<>>
  ELSE IF b[1] > 0 THEN Trim(<<b[1] - 1>> \o Tail(b)) ELSE <<Base - 1>> \o Dec(Tail(b))

\* a <= b
BigLeq(a, b) ==
  IF Len(a) # Len(b) THEN Len(a) < Len(b)
  ELSE a = b \/ \E i \in 1..Len(a) :
                  a[i] < b[i] /\ \A j \in (i + 1)..Len(a) : a[j] = b[j]

(***************************************************************************)
(* IEEE-754 binary64, the type of Python's float: a value is m * 2^e with  *)
(* a significand m of at most MantBits bits.  Prices lie far inside the    *)
(* normal range, so the exponent is not bounded here.                      *)
(***************************************************************************)
MantBits == 53

\* Round the exact value b * 2^e (plus a positive amount below one unit of b
\* when sticky) to MantBits significant bits, to nearest, ties to even.
RoundNearestEven(b, e, sticky) ==
  LET t == BitLen(b) - MantBits
  IN  IF t <= 0 THEN [m |-> b, e |-> e]
      ELSE LET q     == ShiftRight(b, t)
               guard == Bit(b, t - 1)
               rest  == sticky \/ LowBitsNonZero(b, t - 1)
               up    == guard = 1 /\ (rest \/ Bit(q, 0) = 1)
           IN  [m |-> IF up THEN Inc(q) ELSE q, e |-> e + t]

\* float * int: the int operand converts to binary64 exactly, the product is
\* rounded once.
FloatMulInt(x, c) ==
  IF x.m = <<>> \/ c = 0 THEN [m |-> <<>>, e |-> 0]
  ELSE RoundNearestEven(BigMulSmall(x.m, c), x.e, FALSE)

\* int(float): truncation toward zero (the values here are non-negative).
IntOfFloat(x) ==
  IF x.e >= 0 THEN ToInt(ShiftLeft(x.m, x.e)) ELSE ToInt(ShiftRight(x.m, -x.e))

\* x <= y for non-negative binary64 values, compared at the smaller exponent.
FloatLeq(x, y) ==
  LET least == IF x.e < y.e THEN x.e ELSE y.e
  IN  BigLeq(ShiftLeft(x.m, x.e - least), ShiftLeft(y.m, y.e - least))

(***************************************************************************)
(* convert_price_value                                                     *)
(***************************************************************************)
MULTIPLIER == 10000

\* round(float(val) * MULTIPLIER), halves up.
convert_price_value_rounding(val) ==
  LET p == FloatMulInt(val, MULTIPLIER)
      h == [m |-> BigMulSmall(p.m, 2), e |-> p.e]
  IN  (IntOfFloat(h) + 1) \div 2

convert_price_value(val) == IntOfFloat(FloatMulInt(val, MULTIPLIER))


(***************************************************************************)
(* Text: sequences of one-character strings.                               *)
(***************************************************************************)
Digit == <<"0", "1", "2", "3", "4", "5", "6", "7", "8", "9">>

RECURSIVE NatStr(_)
NatStr(n) == IF n < 10 THEN <<Digit[n + 1]>> ELSE NatStr(n \div 10) \o <<Digit[(n % 10) + 1]>>

\* str(int), as an f-string renders an int: base 10, no padding, "-" if negative.
IntStr(n) == IF n < 0 THEN <<"-">> \o NatStr(-n) ELSE NatStr(n)

RECURSIVE ZeroPad(_, _)
ZeroPad(s, w) == IF Len(s) >= w THEN s ELSE ZeroPad(<<"0">> \o s, w)

\* date.strftime("%Y%m%d 00:00")
Strftime(date) ==
  ZeroPad(NatStr(date.y), 4) \o ZeroPad(NatStr(date.m), 2) \o ZeroPad(NatStr(date.d), 2)
    \o <<" ", "0", "0", ":", "0", "0">>

RECURSIVE JoinNoSeparator(_, _)
JoinNoSeparator(lines, sep) ==
  IF lines = <<>> THEN <<>> ELSE lines[1] \o JoinNoSeparator(Tail(lines), sep)

RECURSIVE Join(_, _)
\* sep.join(lines)
Join(lines, sep) ==
  IF lines = <<>> THEN <<>>
  ELSE IF Len(lines) = 1 THEN lines[1]
  ELSE lines[1] \o sep \o Join(Tail(lines), sep)

UpperOf == [c \in {"a", "p", "l", "m", "s", "f", "t"} |->
              CASE c = "a" -> "A" [] c = "p" -> "P" [] c = "l" -> "L" [] c = "m" -> "M"
                [] c = "s" -> "S" [] c = "f" -> "F" [] c = "t" -> "T"]

LowerOf == [c \in {"A", "P", "L", "M", "S", "F", "T"} |->
              CASE c = "A" -> "a" [] c = "P" -> "p" [] c = "L" -> "l" [] c = "M" -> "m"
                [] c = "S" -> "s" [] c = "F" -> "f" [] c = "T" -> "t"]

\* str.upper() and str.lower(): cased letters are mapped, the rest kept.
Upper(s) == [i \in 1..Len(s) |-> IF s[i] \in DOMAIN UpperOf THEN UpperOf[s[i]] ELSE s[i]]

Lower(s) == [i \in 1..Len(s) |-> IF s[i] \in DOMAIN LowerOf THEN LowerOf[s[i]] ELSE s[i]]

(***************************************************************************)
(* One row of the downloaded frame, formatted as the loop body of main     *)
(* formats it: row = [date, Open, High, Low, Close, Volume].               *)
(***************************************************************************)
FormatRowSwapped(row) ==
  Strftime(row.date) \o <<",">> \o IntStr(convert_price_value(row.Open))
    \o <<",">> \o IntStr(convert_price_value(row.Low))
    \o <<",">> \o IntStr(convert_price_value(row.High))
    \o <<",">> \o IntStr(convert_price_value(row.Close))
    \o <<",">> \o IntStr(row.Volume)

FormatRow(row) ==
  Strftime(row.date) \o <<",">> \o IntStr(convert_price_value(row.Open))
    \o <<",">> \o IntStr(convert_price_value(row.High))
    \o <<",">> \o IntStr(convert_price_value(row.Low))
    \o <<",">> \o IntStr(convert_price_value(row.Close))
    \o <<",">> \o IntStr(row.Volume)

\* formatted_data after the loop over the frame's rows.
FormatRows(frame) == [j \in 1..Len(frame) |-> FormatRow(frame[j])]

(***************************************************************************)
(* The prices the data source can return: binary64 values.  They are named *)
(* here by the decimal n / 10^4 they are nearest to, and by an offset of   *)
(* whole units in the last place from it.                                  *)
(***************************************************************************)
\* The binary64 nearest to n / den (what parsing the decimal text gives).
NearestDouble(n, den) ==
  IF n = 0 THEN [m |-> <<>>, e |-> 0]
  ELSE LET d == BigDivSmall(ShiftLeft(NatOf(n), 70), den)
       IN  RoundNearestEven(d.q, -70, d.r # 0)

\* The binary64 off units in the last place away from x, at x's exponent.
UlpOffset(x, off) ==
  CASE off = 0  -> x
    [] off = 1  -> [m |-> Inc(x.m), e |-> x.e]
    [] off = -1 -> [m |-> Dec(x.m), e |-> x.e]

Price(n, off) == UlpOffset(NearestDouble(n, 10000), off)


(***************************************************************************)
(* Inputs.  Command lines (sys.argv, the program name first), and the rows *)
(* the data source returns: at most MaxBars rows in ascending date order.  *)
(***************************************************************************)
MaxBars == 2

Prog == <<"download_data.py">>

AAPL == <<"A", "A", "P", "L">>

aapl == <<"a", "a", "p", "l">>

MSFT == <<"M", "S", "F", "T">>

Jan01 == <<"2023-01-01">>

Dec31 == <<"2023-12-31">>

NotADate == <<"yesterday">>

ArgvChoices ==
  { <<Prog, AAPL, Jan01>>,
    <<Prog, <<>>, Jan01, Dec31>>,
    <<Prog, AAPL, NotADate, Dec31>>,
    <<Prog, AAPL, Dec31, Jan01>>,
    <<Prog, AAPL, Jan01, Dec31>>,
    <<Prog, aapl, Jan01, Dec31>>,
    <<Prog, MSFT, Jan01, Dec31>> }

\* 2023-01-03: open 130.0, high 131.5, low 129.25, close 131.0, volume 1000.
ExampleRow ==
  [date |-> [y |-> 2023, m |-> 1, d |-> 3],
   Open |-> Price(1300000, 0), High |-> Price(1315000, 0),
   Low |-> Price(1292500, 0), Close |-> Price(1310000, 0), Volume |-> 1000]

SourceRows ==
  << ExampleRow,
     [date |-> [y |-> 2023, m |-> 1, d |-> 4],
      Open |-> Price(1310000, 0), High |-> Price(1310007, 0),
      Low |-> Price(1300003, 0), Close |-> Price(1300003, 1), Volume |-> 0],
     [date |-> [y |-> 2023, m |-> 11, d |-> 30],
      Open |-> Price(7, 0), High |-> Price(9, 0),
      Low |-> Price(3, 0), Close |-> Price(7, -1), Volume |-> 123456789] >>

\* The strictly increasing index sequences into 1..n of length at most k.
RECURSIVE Ascending(_, _, _)
Ascending(from, n, k) ==
  {<<>>} \cup
    (IF k = 0 THEN {}
     ELSE UNION {{<<i>> \o t : t \in Ascending(i + 1, n, k - 1)} : i \in from..n})

Frames ==
  {[j \in 1..Len(ix) |-> SourceRows[ix[j]]] : ix \in Ascending(1, Len(SourceRows), MaxBars)}

(***************************************************************************)
(* State.  Two invocations of the script share one filesystem.             *)
(***************************************************************************)
Invocations == {1, 2}

VARIABLES
  linesep,         \* os.linesep, what text mode writes for "\n"
  dirs,            \* the directories that exist
  csv_files,       \* output_dir's text files: name -> contents
  zip_files,       \* output_dir's archives: name -> [entries, state, writer]
  pc,              \* each invocation's position in main
  argv,            \* sys.argv
  symbol, start_date, end_date,
  data,            \* the frame yf.download returned
  formatted_data,
  stdout,          \* what was printed, one tag per print call
  exitcode,        \* the process exit status once exited
  downloads,       \* history: calls of yf.download
  io,              \* history: filesystem operations, [op, name]
  left             \* history: the archive as a completed run left it

vars == <<linesep, dirs, csv_files, zip_files, pc, argv, symbol, start_date, end_date,
          data, formatted_data, stdout, exitcode, downloads, io, left>>

locals == <<argv, symbol, start_date, end_date, data, formatted_data>>

lean_data_dir == <<"C:\\GitRepo\\Finance\\LeanFork\\Data">>

\* os.path.join(lean_data_dir, "equity", "usa", "daily")
output_dir == lean_data_dir \o <<"equity", "usa", "daily">>

CsvNameUpper(sym) == sym \o <<".", "c", "s", "v">>

CsvNameShared(sym) == <<"d", "a", "t", "a", ".", "c", "s", "v">>

CsvName(sym) == Lower(sym) \o <<".", "c", "s", "v">>

ZipName(sym) == Lower(sym) \o <<".", "z", "i", "p">>

None == <<>>

Running == {"main", "download", "check_empty", "format", "makedirs", "open_csv",
            "write_csv", "open_zip", "zip_write", "zip_close", "remove", "report"}

Init ==
  /\ linesep \in {<<"\n">>, <<"\r", "\n">>}
  /\ dirs = {}
  /\ csv_files = <<>>
  /\ zip_files = <<>>
  /\ pc = [i \in Invocations |-> "idle"]
  /\ argv = [i \in Invocations |-> None]
  /\ symbol = [i \in Invocations |-> None]
  /\ start_date = [i \in Invocations |-> None]
  /\ end_date = [i \in Invocations |-> None]
  /\ data = [i \in Invocations |-> None]
  /\ formatted_data = [i \in Invocations |-> None]
  /\ stdout = [i \in Invocations |-> <<>>]
  /\ exitcode = [i \in Invocations |-> -1]
  /\ downloads = [i \in Invocations |-> 0]
  /\ io = [i \in Invocations |-> {}]
  /\ left = [i \in Invocations |-> None]

Goto(i, label) == pc' = [pc EXCEPT ![i] = label]

Say(i, tags) == stdout' = [stdout EXCEPT ![i] = @ \o tags]

Did(i, ops) == io' = [io EXCEPT ![i] = @ \cup ops]

Op(op, name) == [op |-> op, name |-> name]

\* sys.exit(code), or an exception nothing catches (the interpreter prints the
\* traceback and exits with status 1).
Exit(i, code) == /\ Goto(i, "exited")
                 /\ exitcode' = [exitcode EXCEPT ![i] = code]

Raise(i) == /\ Exit(i, 1)
            /\ Say(i, <<"traceback">>)


(***************************************************************************)
(* Files.  A text file is its characters.  An archive is the entries       *)
(* written to it, whether its central directory has been written ("open",  *)
(* "closed"), and the invocation whose handle last truncated it; an        *)
(* archive written through two handles at once is no archive ("garbled").  *)
(***************************************************************************)
\* The segments of s between the occurrences of the character c.
Split(s, c) ==
  LET cuts     == {i \in 1..Len(s) : s[i] = c}
      n        == Cardinality(cuts)
      CutAt(k) == IF k = 0 THEN 0
                  ELSE IF k = n + 1 THEN Len(s) + 1
                  ELSE CHOOSE i \in cuts : Cardinality({j \in cuts : j < i}) = k - 1
  IN  [k \in 1..(n + 1) |-> SubSeq(s, CutAt(k - 1) + 1, CutAt(k) - 1)]

\* What a text-mode file writes for s: each "\n" becomes os.linesep.
TextModeWrite(s, sep) == Join(Split(s, "\n"), sep)

\* Writing text at offset 0 of a file that holds old: the bytes beyond the
\* text stay.
Overlay(text, old) ==
  IF Len(old) > Len(text) THEN text \o SubSeq(old, Len(text) + 1, Len(old)) ELSE text

Prefixes(path) == {SubSeq(path, 1, k) : k \in 1..Len(path)}

Without(f, name) == [n \in DOMAIN f \ {name} |-> f[n]]

csv_path(i) == CsvName(symbol[i])

zip_path(i) == ZipName(symbol[i])

(***************************************************************************)
(* main, one action per statement that another process or a failure can    *)
(* separate from the next.                                                 *)
(***************************************************************************)
\* The process starts.
Launch(i, args) ==
  /\ pc[i] = "idle"
  /\ argv' = [argv EXCEPT ![i] = args]
  /\ Goto(i, "main")
  /\ UNCHANGED <<linesep, dirs, csv_files, zip_files, symbol, start_date, end_date,
                 data, formatted_data, stdout, exitcode, downloads, io, left>>

\* The argument count check and the assignments from sys.argv.
CheckArgs(i) ==
  /\ pc[i] = "main"
  /\ IF Len(argv[i]) < 4
     THEN /\ Say(i, <<"usage", "example">>)
          /\ Exit(i, 1)
          /\ UNCHANGED <<symbol, start_date, end_date>>
     ELSE /\ symbol' = [symbol EXCEPT ![i] = Upper(argv[i][2])]
          /\ start_date' = [start_date EXCEPT ![i] = argv[i][3]]
          /\ end_date' = [end_date EXCEPT ![i] = argv[i][4]]
          /\ Say(i, <<"downloading">>)
          /\ Goto(i, "download")
          /\ UNCHANGED exitcode
  /\ UNCHANGED <<linesep, dirs, csv_files, zip_files, argv, data, formatted_data,
                 downloads, io, left>>

\* yf.download: a frame, or an exception.
Download(i) ==
  /\ pc[i] = "download"
  /\ downloads' = [downloads EXCEPT ![i] = @ + 1]
  /\ \/ /\ \E frame \in Frames : data' = [data EXCEPT ![i] = frame]
        /\ Goto(i, "check_empty")
        /\ UNCHANGED <<stdout, exitcode>>
     \/ /\ Raise(i)
        /\ UNCHANGED data
  /\ UNCHANGED <<linesep, dirs, csv_files, zip_files, argv, symbol, start_date, end_date,
                 formatted_data, io, left>>

CheckEmptyNoExit(i) ==
  /\ pc[i] = "check_empty"
  /\ IF Len(data[i]) = 0
     THEN Say(i, <<"no data">>)
     ELSE UNCHANGED stdout
  /\ Goto(i, "format")
  /\ UNCHANGED <<linesep, dirs, csv_files, zip_files, locals, exitcode, downloads, io, left>>

CheckEmpty(i) ==
  /\ pc[i] = "check_empty"
  /\ IF Len(data[i]) = 0
     THEN /\ Say(i, <<"no data">>)
          /\ Exit(i, 1)
     ELSE /\ Goto(i, "format")
          /\ UNCHANGED <<stdout, exitcode>>
  /\ UNCHANGED <<linesep, dirs, csv_files, zip_files, locals, downloads, io, left>>

\* The loop over data.iterrows().
Format(i) ==
  /\ pc[i] = "format"
  /\ formatted_data' = [formatted_data EXCEPT ![i] = FormatRows(data[i])]
  /\ Say(i, <<"saving">>)
  /\ Goto(i, "makedirs")
  /\ UNCHANGED <<linesep, dirs, csv_files, zip_files, argv, symbol, start_date, end_date,
                 data, exitcode, downloads, io, left>>

\* os.makedirs(output_dir, exist_ok=True)
MakeDirs(i) ==
  /\ pc[i] = "makedirs"
  /\ \/ /\ dirs' = dirs \cup Prefixes(output_dir)
        /\ Goto(i, "open_csv")
        /\ UNCHANGED <<stdout, exitcode>>
     \/ /\ Raise(i)
        /\ UNCHANGED dirs
  /\ UNCHANGED <<linesep, csv_files, zip_files, locals, downloads, io, left>>

\* open(csv_path, "w")
OpenCsv(i) ==
  /\ pc[i] = "open_csv"
  /\ \/ /\ output_dir \in dirs
        /\ csv_files' = (csv_path(i) :> <<>>) @@ csv_files
        /\ Did(i, {Op("write", csv_path(i))})
        /\ Goto(i, "write_csv")
        /\ UNCHANGED <<stdout, exitcode>>
     \/ /\ Raise(i)
        /\ UNCHANGED <<csv_files, io>>
  /\ UNCHANGED <<linesep, dirs, zip_files, locals, downloads, left>>

\* f.write("\n".join(formatted_data)) and the close that ends the with block.
\* A failure leaves the records flushed before it.
WriteCsv(i) ==
  /\ pc[i] = "write_csv"
  /\ \/ /\ csv_files' =
             IF csv_path(i) \in DOMAIN csv_files
             THEN [csv_files EXCEPT ![csv_path(i)] =
                     Overlay(TextModeWrite(Join(formatted_data[i], <<"\n">>), linesep), @)]
             ELSE csv_files
        /\ Goto(i, "open_zip")
        /\ UNCHANGED <<stdout, exitcode>>
     \/ /\ \E k \in 0..(Len(formatted_data[i]) - 1) :
             csv_files' =
               IF csv_path(i) \in DOMAIN csv_files
               THEN [csv_files EXCEPT ![csv_path(i)] =
                       Overlay(TextModeWrite(Join(SubSeq(formatted_data[i], 1, k), <<"\n">>),
                                             linesep), @)]
               ELSE csv_files
        /\ Raise(i)
  /\ Did(i, {Op("write", csv_path(i))})
  /\ UNCHANGED <<linesep, dirs, zip_files, locals, downloads, left>>

OpenZipAppend(i) ==
  /\ pc[i] = "open_zip"
  /\ zip_files' =
       IF zip_path(i) \in DOMAIN zip_files
       THEN [zip_files EXCEPT ![zip_path(i)] = [@ EXCEPT !.state = "open", !.writer = i]]
       ELSE (zip_path(i) :> [entries |-> <<>>, state |-> "open", writer |-> i]) @@ zip_files
  /\ Did(i, {Op("write", zip_path(i))})
  /\ Goto(i, "zip_write")
  /\ UNCHANGED <<linesep, dirs, csv_files, locals, stdout, exitcode, downloads, left>>

\* zipfile.ZipFile(zip_path, "w", compression=zipfile.ZIP_DEFLATED)
OpenZip(i) ==
  /\ pc[i] = "open_zip"
  /\ \/ /\ zip_files' =
             (zip_path(i) :> [entries |-> <<>>, state |-> "open", writer |-> i]) @@ zip_files
        /\ Did(i, {Op("write", zip_path(i))})
        /\ Goto(i, "zip_write")
        /\ UNCHANGED <<stdout, exitcode>>
     \/ /\ Raise(i)
        /\ UNCHANGED <<zip_files, io>>
  /\ UNCHANGED <<linesep, dirs, csv_files, locals, downloads, left>>

\* What a write through invocation i's handle leaves of the archive z.
ThroughHandle(i, z, entries, state) ==
  IF z.writer = i /\ z.state = "open"
  THEN [z EXCEPT !.entries = entries, !.state = state]
  ELSE [z EXCEPT !.state = "garbled"]

\* z.write(csv_path, arcname=f"{symbol_lower}.csv"); an exception inside the
\* with block closes the archive on the way out.
ZipWrite(i) ==
  /\ pc[i] = "zip_write"
  /\ LET z == zip_files[zip_path(i)]
     IN  \/ /\ csv_path(i) \in DOMAIN csv_files
            /\ zip_files' =
                 [zip_files EXCEPT ![zip_path(i)] =
                    ThroughHandle(i, z,
                      Append(z.entries, [name |-> CsvName(symbol[i]),
                                         data |-> csv_files[csv_path(i)]]),
                      "open")]
            /\ Goto(i, "zip_close")
            /\ UNCHANGED <<stdout, exitcode>>
         \/ /\ zip_files' =
                 [zip_files EXCEPT ![zip_path(i)] = ThroughHandle(i, z, z.entries, "closed")]
            /\ Raise(i)
  /\ Did(i, {Op("read", csv_path(i)), Op("write", zip_path(i))})
  /\ UNCHANGED <<linesep, dirs, csv_files, locals, downloads, left>>

\* The close that ends the with block: the central directory is written.
ZipClose(i) ==
  /\ pc[i] = "zip_close"
  /\ LET z == zip_files[zip_path(i)]
     IN  \/ /\ zip_files' =
                 [zip_files EXCEPT ![zip_path(i)] = ThroughHandle(i, z, z.entries, "closed")]
            /\ Goto(i, "remove")
            /\ UNCHANGED <<stdout, exitcode>>
         \/ /\ Raise(i)
            /\ UNCHANGED zip_files
  /\ Did(i, {Op("write", zip_path(i))})
  /\ UNCHANGED <<linesep, dirs, csv_files, locals, downloads, left>>

RemoveSkipped(i) ==
  /\ pc[i] = "remove"
  /\ Goto(i, "report")
  /\ UNCHANGED <<linesep, dirs, csv_files, zip_files, locals, stdout, exitcode, downloads,
                 io, left>>

\* os.remove(csv_path)
Remove(i) ==
  /\ pc[i] = "remove"
  /\ \/ /\ csv_path(i) \in DOMAIN csv_files
        /\ csv_files' = Without(csv_files, csv_path(i))
        /\ Goto(i, "report")
        /\ UNCHANGED <<stdout, exitcode>>
     \/ /\ Raise(i)
        /\ UNCHANGED csv_files
  /\ Did(i, {Op("delete", csv_path(i))})
  /\ UNCHANGED <<linesep, dirs, zip_files, locals, downloads, left>>

\* The two closing prints; main returns and the process exits with status 0.
Report(i) ==
  /\ pc[i] = "report"
  /\ Say(i, <<"ready", "contains">>)
  /\ Exit(i, 0)
  /\ left' = [left EXCEPT ![i] =
                IF zip_path(i) \in DOMAIN zip_files THEN zip_files[zip_path(i)] ELSE None]
  /\ UNCHANGED <<linesep, dirs, csv_files, zip_files, locals, downloads, io>>

Step(i) ==
  \/ CheckArgs(i)
  \/ Download(i)
  \/ CheckEmpty(i)
  \/ Format(i)
  \/ MakeDirs(i)
  \/ OpenCsv(i)
  \/ WriteCsv(i)
  \/ OpenZip(i)
  \/ ZipWrite(i)
  \/ ZipClose(i)
  \/ Remove(i)
  \/ Report(i)

\* One run after another: a process starts once the runs before it have ended.
LaunchAlone(i) ==
  /\ \A j \in Invocations : j < i => pc[j] = "exited"
  /\ \A j \in Invocations : pc[j] \notin Running
  /\ \E args \in ArgvChoices : Launch(i, args)

Next == \E i \in Invocations : LaunchAlone(i) \/ Step(i)

Spec == Init /\ [][Next]_vars

\* Two processes started at any time, so that their steps interleave: one for
\* AAPL, the other for the same symbol, for its lower-case spelling or for
\* another symbol.
ConcurrentArgv(i) ==
  IF i = 1 THEN {<<Prog, AAPL, Jan01, Dec31>>}
  ELSE {<<Prog, AAPL, Jan01, Dec31>>, <<Prog, aapl, Jan01, Dec31>>,
        <<Prog, MSFT, Jan01, Dec31>>}

LaunchAny(i) == \E args \in ConcurrentArgv(i) : Launch(i, args)

NextConcurrent == \E i \in Invocations : LaunchAny(i) \/ Step(i)

SpecConcurrent == Init /\ [][NextConcurrent]_vars


(***************************************************************************)
(* The encoder alone: main about to format a frame of one row, the row     *)
(* drawn from the prices around the first MaxTick + 1 multiples of 10^-4,  *)
(* the prices of the documented example and two dyadic prices whose scaled *)
(* product is exact and not an integer.                                    *)
(***************************************************************************)
MaxTick == 7

EncoderPrices ==
  {Price(n, 0) : n \in 0..MaxTick}
    \cup {Price(n, off) : n \in 1..MaxTick, off \in {-1, 1}}
    \cup {Price(n, 0) : n \in {1292500, 1300000, 1310000, 1315000}}
    \cup {[m |-> NatOf(3), e |-> -15], [m |-> NatOf(5), e |-> -3]}

EncoderRows ==
  {[date |-> dv[1], Open |-> hl[oc[1]], High |-> hl[1], Low |-> hl[2], Close |-> hl[oc[2]],
    Volume |-> dv[2]] :
     dv \in {<<[y |-> 2023, m |-> 1, d |-> 3], 1000>>,
             <<[y |-> 2023, m |-> 11, d |-> 30], 0>>,
             <<[y |-> 1999, m |-> 12, d |-> 31], 123456789>>},
     hl \in EncoderPrices \X EncoderPrices,
     oc \in {1, 2} \X {1, 2}}
    \cup {ExampleRow}

InitEncode ==
  /\ linesep \in {<<"\n">>, <<"\r", "\n">>}
  /\ dirs = {}
  /\ csv_files = <<>>
  /\ zip_files = <<>>
  /\ pc = [i \in Invocations |-> IF i = 1 THEN "format" ELSE "idle"]
  /\ argv = [i \in Invocations |-> IF i = 1 THEN <<Prog, AAPL, Jan01, Dec31>> ELSE None]
  /\ symbol = [i \in Invocations |-> IF i = 1 THEN AAPL ELSE None]
  /\ start_date = [i \in Invocations |-> IF i = 1 THEN Jan01 ELSE None]
  /\ end_date = [i \in Invocations |-> IF i = 1 THEN Dec31 ELSE None]
  /\ \E row \in EncoderRows : data = [i \in Invocations |-> IF i = 1 THEN <<row>> ELSE None]
  /\ formatted_data = [i \in Invocations |-> None]
  /\ stdout = [i \in Invocations |-> IF i = 1 THEN <<"downloading">> ELSE <<>>]
  /\ exitcode = [i \in Invocations |-> -1]
  /\ downloads = [i \in Invocations |-> IF i = 1 THEN 1 ELSE 0]
  /\ io = [i \in Invocations |-> {}]
  /\ left = [i \in Invocations |-> None]

NextEncode == Format(1)

SpecEncode == InitEncode /\ [][NextEncode]_vars

(***************************************************************************)
(* Vocabulary of the properties.                                           *)
(***************************************************************************)
Succeeded(i) == pc[i] = "exited" /\ exitcode[i] = 0

Failed(i) == pc[i] = "exited" /\ exitcode[i] # 0

\* Invocation i has started, with a full command line.
Started(i) == pc[i] # "idle" /\ Len(argv[i]) >= 4

\* No run has started after invocation i.
Latest(i) == \A j \in Invocations : j > i => pc[j] = "idle"

\* The data source was called and returned a frame with no rows.
FetchedEmpty(i) ==
  /\ downloads[i] = 1
  /\ pc[i] \notin {"idle", "main", "download"}
  /\ stdout[i] # <<"downloading", "traceback">>
  /\ Len(data[i]) = 0

\* The names the specification gives the staging file and the archive of a
\* command line: the symbol as typed, lower-cased.
StagingOf(args) == Lower(args[2]) \o <<".", "c", "s", "v">>

ArchiveOf(args) == Lower(args[2]) \o <<".", "z", "i", "p">>

\* The lines of a text, as a reader of either newline convention sees them.
Lines(text) ==
  LET segs == Split(text, "\n")
  IN  [k \in 1..Len(segs) |->
         IF segs[k] # <<>> /\ segs[k][Len(segs[k])] = "\r"
         THEN SubSeq(segs[k], 1, Len(segs[k]) - 1) ELSE segs[k]]

RECURSIVE ParseNat(_)
ParseNat(s) ==
  IF s = <<>> THEN 0
  ELSE 10 * ParseNat(SubSeq(s, 1, Len(s) - 1))
       + (CHOOSE d \in 0..9 : Digit[d + 1] = s[Len(s)])

\* floor(x * 10000) in exact arithmetic, for a binary64 x >= 0.
ExactScaledFloor(x) ==
  IF x.e >= 0 THEN ToInt(ShiftLeft(BigMulSmall(x.m, 10000), x.e))
  ELSE ToInt(ShiftRight(BigMulSmall(x.m, 10000), -x.e))

\* x * 10000 is a binary64: the product needs no rounding.
ScaledExactly(x) == BitLen(BigMulSmall(x.m, 10000)) <= 53

\* The archive holds exactly the records of the frame: one closed entry under
\* the staging name, the encoded rows joined by the line separator, nothing
\* after the last.
HoldsExactly(z, args, frame) ==
  /\ z.state = "closed"
  /\ Len(z.entries) = 1
  /\ z.entries[1].name = StagingOf(args)
  /\ z.entries[1].data = Join([j \in 1..Len(frame) |-> FormatRow(frame[j])], linesep)

(***************************************************************************)
(* Properties.                                                             *)
(***************************************************************************)
\* In every state of an invocation whose frame came back empty: no file
\* operation, no archive left, and once exited the status is 1.
C1_EmptyStateOk ==
  \A i \in Invocations :
    FetchedEmpty(i) =>
      /\ io[i] = {}
      /\ left[i] = None
      /\ pc[i] \in {"check_empty", "exited"}
      /\ pc[i] = "exited" => exitcode[i] = 1 /\ stdout[i] = <<"downloading", "no data">>
      /\ Latest(i) /\ (\A j \in Invocations : j # i => io[j] = {}) =>
           csv_files = <<>> /\ zip_files = <<>>

\* Every step of such an invocation is the exit with status 1 and leaves the
\* directories and files as they were.
C1_EmptyStepOk ==
  \A i \in Invocations :
    FetchedEmpty(i) /\ pc'[i] # pc[i] =>
      /\ pc'[i] = "exited"
      /\ exitcode'[i] = 1
      /\ UNCHANGED <<dirs, csv_files, zip_files>>

\* C1: when the data source returns an empty frame the invocation touches no
\* file (no staging file, no archive, no directory is created or modified by
\* it, at any point up to its end) and its next step is exit status 1 with
\* the "no data" message.
C1_EmptyResultFails == []C1_EmptyStateOk /\ [][C1_EmptyStepOk]_vars

C1_Witness ==
  /\ FetchedEmpty(2) /\ pc[2] = "exited"
  /\ Succeeded(1) /\ argv[1] = argv[2]

\* C2: the archived csv of a completed run has as many lines as the frame had
\* rows, and line j is the encoding of row j.
C2_LinesAreRows ==
  \A i \in Invocations :
    Succeeded(i) =>
      /\ left[i] # None
      /\ Len(left[i].entries) >= 1
      /\ LET lines == Lines(left[i].entries[1].data)
         IN  /\ Len(lines) = Len(data[i])
             /\ \A j \in 1..Len(data[i]) : lines[j] = FormatRow(data[i][j])

C2_Witness == \E i \in Invocations : Succeeded(i) /\ Len(data[i]) >= 2

\* C3 as stated: each price field is floor(price * 10000), the product taken
\* exactly.
C3_ExactFloor ==
  \A i \in Invocations :
    pc[i] = "makedirs" =>
      \A j \in 1..Len(data[i]) :
        LET f == Split(formatted_data[i][j], ",")
            r == data[i][j]
        IN  /\ ParseNat(f[2]) = ExactScaledFloor(r.Open)
            /\ ParseNat(f[3]) = ExactScaledFloor(r.High)
            /\ ParseNat(f[4]) = ExactScaledFloor(r.Low)
            /\ ParseNat(f[5]) = ExactScaledFloor(r.Close)

\* What the encoder guarantees of a price x and its field v.
ScaledWithinOne(x, v) ==
  /\ v \in {ExactScaledFloor(x), ExactScaledFloor(x) + 1}
  /\ ScaledExactly(x) => v = ExactScaledFloor(x)

ExampleLine ==
  <<"2", "0", "2", "3", "0", "1", "0", "3", " ", "0", "0", ":", "0", "0", ",",
    "1", "3", "0", "0", "0", "0", "0", ",", "1", "3", "1", "5", "0", "0", "0", ",",
    "1", "2", "9", "2", "5", "0", "0", ",", "1", "3", "1", "0", "0", "0", "0", ",",
    "1", "0", "0", "0">>

\* C3, amended: each record has the six fields timestamp, open, high, low,
\* close, volume; each price field is the binary64 product price * 10000
\* truncated, which is floor(price * 10000) when the product is exact and
\* otherwise floor(price * 10000) or one more; the volume is unscaled; the
\* documented example encodes to the documented line.
C3_ScaledTruncated ==
  \A i \in Invocations :
    pc[i] = "makedirs" =>
      \A j \in 1..Len(data[i]) :
        LET f == Split(formatted_data[i][j], ",")
            r == data[i][j]
        IN  /\ Len(f) = 6
            /\ ScaledWithinOne(r.Open, ParseNat(f[2]))
            /\ ScaledWithinOne(r.High, ParseNat(f[3]))
            /\ ScaledWithinOne(r.Low, ParseNat(f[4]))
            /\ ScaledWithinOne(r.Close, ParseNat(f[5]))
            /\ ParseNat(f[6]) = r.Volume
            /\ r = ExampleRow => formatted_data[i][j] = ExampleLine

\* A low price of 0.0007 as binary64, which lies below 7/10000: the product
\* rounds to 7.0 and the field is 7, one more than the exact floor 6.
C3_Witness ==
  /\ pc[1] = "makedirs"
  /\ data[1][1].Low = Price(7, 0)
  /\ ExactScaledFloor(data[1][1].Low) = 6
  /\ ParseNat(Split(formatted_data[1][1], ",")[4]) = 7

\* A row is well formed: low <= open <= high and low <= close <= high.
WellFormed(r) ==
  /\ FloatLeq(r.Low, r.Open) /\ FloatLeq(r.Open, r.High)
  /\ FloatLeq(r.Low, r.Close) /\ FloatLeq(r.Close, r.High)

\* C10: the record of a well-formed row has low_i <= open_i <= high_i and
\* low_i <= close_i <= high_i.
C10_OrderPreserved ==
  \A i \in Invocations :
    pc[i] = "makedirs" =>
      \A j \in 1..Len(data[i]) :
        LET f == Split(formatted_data[i][j], ",")
        IN  WellFormed(data[i][j]) =>
              /\ ParseNat(f[4]) <= ParseNat(f[2]) /\ ParseNat(f[2]) <= ParseNat(f[3])
              /\ ParseNat(f[4]) <= ParseNat(f[5]) /\ ParseNat(f[5]) <= ParseNat(f[3])

\* A well-formed row whose low and high lie one unit in the last place apart
\* and whose fields differ.
C10_Witness ==
  /\ pc[1] = "makedirs"
  /\ WellFormed(data[1][1])
  /\ data[1][1].Low = Price(7, -1) /\ data[1][1].High = Price(7, 0)
  /\ LET f == Split(formatted_data[1][1], ",") IN ParseNat(f[4]) < ParseNat(f[3])

\* C4: a completed run leaves, under the archive name of its symbol, a closed
\* archive with exactly one entry, named after the staging file, holding the
\* records joined by the line separator with none after the last; the entry
\* is what the staging file held.
C4_ArchiveContents ==
  \A i \in Invocations :
    /\ Succeeded(i) =>
         /\ left[i] # None
         /\ HoldsExactly(left[i], argv[i], data[i])
         /\ Latest(i) =>
              /\ ArchiveOf(argv[i]) \in DOMAIN zip_files
              /\ zip_files[ArchiveOf(argv[i])] = left[i]
    /\ pc[i] \in {"zip_close", "remove"} =>
         /\ StagingOf(argv[i]) \in DOMAIN csv_files
         /\ zip_files[ArchiveOf(argv[i])].entries =
              <<[name |-> StagingOf(argv[i]), data |-> csv_files[StagingOf(argv[i])]]>>

C4_Witness ==
  \E i \in Invocations :
    /\ Succeeded(i) /\ Latest(i) /\ Len(data[i]) = 2 /\ argv[i][2] = AAPL
    /\ zip_files[aapl \o <<".", "z", "i", "p">>].entries[1].name = aapl \o <<".", "c", "s", "v">>

\* Both runs completed, for the same archive.
BothCompleted ==
  /\ Succeeded(1) /\ Succeeded(2)
  /\ ArchiveOf(argv[1]) = ArchiveOf(argv[2])

\* C5: a run that completes where an earlier run left an archive of the same
\* name leaves only its own records in it; two runs with the same command
\* line and the same frame leave the same entry as the first alone did.
C5_ReplacedInFull ==
  BothCompleted =>
    /\ HoldsExactly(zip_files[ArchiveOf(argv[2])], argv[2], data[2])
    /\ argv[1] = argv[2] /\ data[1] = data[2] =>
         /\ left[2].entries = left[1].entries
         /\ zip_files[ArchiveOf(argv[2])].entries = left[1].entries

C5_Witness ==
  /\ BothCompleted
  /\ Len(data[1]) > Len(data[2])
  /\ left[1].entries # left[2].entries

\* C6: the staging file is removed only once the archive is closed and holds
\* the entry, and a completed run ends with the archive present and the
\* staging file absent.
C6_StagingRemoved ==
  \A i \in Invocations :
    /\ Started(i) /\ Latest(i)
         /\ (pc[i] \in {"remove", "report"} \/ Op("delete", StagingOf(argv[i])) \in io[i]) =>
         /\ ArchiveOf(argv[i]) \in DOMAIN zip_files
         /\ zip_files[ArchiveOf(argv[i])].state = "closed"
         /\ Len(zip_files[ArchiveOf(argv[i])].entries) = 1
    /\ Succeeded(i) /\ Latest(i) =>
         /\ ArchiveOf(argv[i]) \in DOMAIN zip_files
         /\ StagingOf(argv[i]) \notin DOMAIN csv_files

C6_Witness ==
  \E i \in Invocations :
    /\ Succeeded(i) /\ Latest(i)
    /\ Op("delete", StagingOf(argv[i])) \in io[i]
    /\ StagingOf(argv[i]) \notin DOMAIN csv_files

\* Invocation i keeps off the files of invocation j, and if it completed its
\* own archive holds exactly its own records and its staging file is gone.
KeepsApart(i, j) ==
  /\ \A a \in io[i] : a.name \notin {StagingOf(argv[j]), ArchiveOf(argv[j])}
  /\ Succeeded(i) =>
       /\ ArchiveOf(argv[i]) \in DOMAIN zip_files
       /\ HoldsExactly(zip_files[ArchiveOf(argv[i])], argv[i], data[i])
       /\ StagingOf(argv[i]) \notin DOMAIN csv_files

\* C7 as stated: two concurrent invocations whose symbol arguments differ as
\* strings keep apart.
C7_DifferentStrings ==
  \A i, j \in Invocations :
    i # j /\ Started(i) /\ Started(j) /\ argv[i][2] # argv[j][2] => KeepsApart(i, j)

\* C7, amended: two concurrent invocations whose symbol arguments differ
\* beyond letter case keep apart, under every interleaving of their steps.
C7_DifferentSymbols ==
  \A i, j \in Invocations :
    i # j /\ Started(i) /\ Started(j) /\ Lower(argv[i][2]) # Lower(argv[j][2]) =>
      KeepsApart(i, j)

C7_Witness ==
  /\ Succeeded(1) /\ Succeeded(2)
  /\ argv[1][2] = AAPL /\ argv[2][2] = MSFT
  /\ Op("delete", StagingOf(argv[1])) \in io[1]
  /\ Op("delete", StagingOf(argv[2])) \in io[2]
  /\ DOMAIN zip_files = {ArchiveOf(argv[1]), ArchiveOf(argv[2])}

\* The calendar date a date argument spells, as yyyymmdd; 0 if none.
DateValue(s) ==
  CASE s = Jan01 -> 20230101
    [] s = Dec31 -> 20231231
    [] OTHER -> 0

UsageError(args) ==
  \/ Len(args) < 4
  \/ /\ Len(args) >= 4
     /\ \/ args[2] = <<>>
        \/ DateValue(args[3]) = 0
        \/ DateValue(args[4]) = 0
        \/ DateValue(args[3]) > DateValue(args[4])

\* C8: a command line with a usage error (too few arguments, an empty
\* symbol, a start or end that is no date, start after end) is answered with
\* the usage message and a non-zero exit before any data-source call or file
\* operation.
C8_UsageErrorNoIO ==
  \A i \in Invocations :
    pc[i] # "idle" /\ UsageError(argv[i]) =>
      /\ downloads[i] = 0
      /\ io[i] = {}
      /\ pc[i] \in {"main", "exited"}
      /\ pc[i] = "exited" => exitcode[i] # 0 /\ stdout[i] = <<"usage", "example">>

\* C9: a run that failed retried nothing and left neither its staging file
\* nor an archive it had started to write.
C9_FailureLeavesNothing ==
  \A i \in Invocations :
    Failed(i) /\ Latest(i) =>
      /\ downloads[i] <= 1
      /\ Op("write", csv_path(i)) \in io[i] => csv_path(i) \notin DOMAIN csv_files
      /\ Op("write", zip_path(i)) \notin io[i]

=============================================================================
